---- MODULE Spec2Model ----
(***************************************************************************)
(* Model of gantt-chart/generate-gantt_chart.py: main() reads the YAML     *)
(* configuration, calculate_schedule resolves every task to a (Start, End) *)
(* interval while threading the cursor current_date through the task list, *)
(* and create_gantt_chart writes the image.                                *)
(*                                                                         *)
(* A timedelta is the record [d, s, us] Python normalises it to: days,     *)
(* seconds in 0..86399 and microseconds in 0..999999.  A datetime is the   *)
(* timedelta since the midnight that starts proleptic Gregorian ordinal    *)
(* day 0, so d is date.toordinal().  A "YYYY-MM-DD" string is the record   *)
(* [k |-> "str", y, m, d]; a missing value (None) is the record NoneDate.  *)
(* A duration_weeks value is a YAML number (the fraction num/den, a        *)
(* boolean, .inf or .nan), a YAML string (the sequence of its characters)  *)
(* or null.  A character is its Unicode code point.  A Python float is the *)
(* IEEE 754 double nearest to the number written, held as the natural      *)
(* number of its multiples of 2^-100, and timedelta(weeks=...) performs    *)
(* the double arithmetic of CPython's timedelta constructor on it.         *)
(***************************************************************************)
EXTENDS Integers, Sequences, FiniteSets, TLC

VARIABLES
    pc,             \* position of main: "main","calc","loop","chart","done","exit"
    config,         \* the loaded configuration (NoConfig before load_config)
    project_start,  \* calculate_schedule locals
    project_end,
    current_date,   \* the cursor
    tasks_data,     \* rows appended so far
    idx,            \* number of tasks the for loop has consumed
    warned,         \* the "> 15 months" advisory was printed
    result,         \* what calculate_schedule returned to main (NoResult before)
    outcome,        \* "running", "ok", or the error that ended the process
    diagnostic,     \* the task name / value the error message names
    exit_status,    \* -1 while running, else the process exit status
    saved           \* number of times plt.savefig wrote the output image

vars == <<pc, config, project_start, project_end, current_date, tasks_data,
          idx, warned, result, outcome, diagnostic, exit_status, saved>>

----------------------------------------------------------------------------
(* Bounds of the model *)

MaxTasks == 3

----------------------------------------------------------------------------
(* Values of the configuration document *)

NoneDate == [k |-> "none", y |-> 0, m |-> 0, d |-> 0]
EmptyStr == [k |-> "empty", y |-> 0, m |-> 0, d |-> 0]
DateStr(y, m, d) == [k |-> "str", y |-> y, m |-> m, d |-> d]

Num(n, dn) == [k |-> "num", num |-> n, den |-> dn, s |-> <<>>]
Bool(v) == [k |-> "bool", num |-> (IF v THEN 1 ELSE 0), den |-> 1, s |-> <<>>]
Inf == [k |-> "inf", num |-> 1, den |-> 1, s |-> <<>>]
NaN == [k |-> "nan", num |-> 0, den |-> 1, s |-> <<>>]
Str(t) == [k |-> "str", num |-> 0, den |-> 1, s |-> t]
Null == [k |-> "null", num |-> 0, den |-> 1, s |-> <<>>]

\* "start2end"
Start2End == Str(<<115, 116, 97, 114, 116, 50, 101, 110, 100>>)

----------------------------------------------------------------------------
(* datetime arithmetic *)

NoTime == [d |-> 0, s |-> 0, us |-> 0]

SecondsPerDay == 24 * 60 * 60
Million == 1000 * 1000

\* the normal form of d days, s seconds and us microseconds
Norm(d, s, us) ==
    LET s2 == s + (us \div Million)
    IN  [d |-> d + (s2 \div SecondsPerDay), s |-> s2 % SecondsPerDay, us |-> us % Million]

\* timedelta and datetime addition and subtraction
Add(a, b) == Norm(a.d + b.d, a.s + b.s, a.us + b.us)
Sub(a, b) == Norm(a.d - b.d, a.s - b.s, a.us - b.us)

\* datetime.max.toordinal(): 9999-12-31
MaxOrdinal == 3652059

IsLeap(y) == (y % 4 = 0) /\ ((y % 100 # 0) \/ (y % 400 = 0))

DaysInMonth(y, m) ==
    IF m = 2 THEN (IF IsLeap(y) THEN 29 ELSE 28)
    ELSE IF m \in {4, 6, 9, 11} THEN 30 ELSE 31

RECURSIVE DaysBeforeMonth(_, _)
DaysBeforeMonth(y, m) ==
    IF m <= 1 THEN 0 ELSE DaysBeforeMonth(y, m - 1) + DaysInMonth(y, m - 1)

DaysBeforeYear(y) ==
    (y - 1) * 365 + ((y - 1) \div 4) - ((y - 1) \div 100) + ((y - 1) \div 400)

\* date(y, m, d).toordinal()
Ordinal(y, m, d) == DaysBeforeYear(y) + DaysBeforeMonth(y, m) + d

\* strptime(.., "%Y-%m-%d") accepts the string
ValidDate(v) ==
    /\ v.k = "str"
    /\ v.y \in 1..9999
    /\ v.m \in 1..12
    /\ v.d \in 1..DaysInMonth(v.y, v.m)

\* parse_date: the datetime at midnight of the day, for a string strptime accepts
parse_date(v) == [d |-> Ordinal(v.y, v.m, v.d), s |-> 0, us |-> 0]

\* timedelta.days: whole days, rounded towards minus infinity
Days(td) == td.d

\* Python truthiness of task.get("start_date"): None and "" are falsy
Truthy(v) == v.k = "str"

----------------------------------------------------------------------------------------------------------------------------------------
(* Natural numbers beyond the machine word *)

\* A natural number is the sequence of its limbs, digits in base 2^LimbBits,
\* most significant first and without a leading zero; <<>> is zero.
LimbBits == 10
Base == 2^LimbBits

Zeros(n) == [i \in 1..n |-> 0]
Max(a, b) == IF a >= b THEN a ELSE b
Min(a, b) == IF a <= b THEN a ELSE b

\* index of the first element of t that is in set, or 0
FirstIn(t, set) ==
    IF \E i \in 1..Len(t) : t[i] \in set
    THEN CHOOSE i \in 1..Len(t) : t[i] \in set /\ \A j \in 1..(i - 1) : t[j] \notin set
    ELSE 0

\* index of the last element of t that is in set, or 0
LastIn(t, set) ==
    IF \E i \in 1..Len(t) : t[i] \in set
    THEN CHOOSE i \in 1..Len(t) :
            t[i] \in set /\ \A j \in (i + 1)..Len(t) : t[j] \notin set
    ELSE 0

\* t without its leading zeros
Strip(t) ==
    LET lead == FirstIn(t, 1..(Base - 1))
    IN  IF lead = 0 THEN <<>> ELSE SubSeq(t, lead, Len(t))

\* t with leading zeros, n long
Pad(t, n) == Zeros(n - Len(t)) \o t

\* the number the digits ds spell in the given base after v, capped
RECURSIVE SatVal(_, _, _, _)
SatVal(ds, base, v, cap) ==
    IF ds = <<>> THEN v
    ELSE LET n == base * v + Head(ds)
         IN  SatVal(Tail(ds), base, IF n > cap THEN cap ELSE n, cap)

\* the limbs of a machine integer
RECURSIVE NatLimbs(_)
NatLimbs(n) == IF n = 0 THEN <<>> ELSE Append(NatLimbs(n \div Base), n % Base)

\* X * m + carry, for m < 2^21
RECURSIVE MulSmall(_, _, _)
MulSmall(X, m, carry) ==
    IF X = <<>> THEN NatLimbs(carry)
    ELSE LET v == X[Len(X)] * m + carry
         IN  Append(MulSmall(SubSeq(X, 1, Len(X) - 1), m, v \div Base), v % Base)

\* quotient and remainder of X by dn < 2^21, after the quotient limbs q and
\* the remainder rem of the limbs before
RECURSIVE DivSmall(_, _, _, _)
DivSmall(X, dn, q, rem) ==
    IF X = <<>> \/ (rem = 0 /\ \A i \in 1..Len(X) : X[i] = 0)
    THEN [q |-> Strip(q \o X), r |-> rem]
    ELSE LET v == rem * Base + Head(X)
         IN  DivSmall(Tail(X), dn, Append(q, v \div dn), v % dn)

\* quotient and remainder of rem * 2^n + (the low n bits of limb) by any dn,
\* after the quotient q of the bits before
RECURSIVE DivBits(_, _, _, _, _)
DivBits(limb, n, dn, q, rem) ==
    IF n = 0 THEN [q |-> q, r |-> rem]
    ELSE LET bit == (limb \div 2^(n - 1)) % 2
             over == rem >= dn - rem - bit
         IN  DivBits(limb, n - 1, dn, 2 * q + (IF over THEN 1 ELSE 0),
                     IF over THEN rem - (dn - rem - bit) ELSE 2 * rem + bit)

\* quotient and remainder of X by any dn
RECURSIVE DivLarge(_, _, _, _)
DivLarge(X, dn, q, rem) ==
    IF X = <<>> THEN [q |-> Strip(q), r |-> rem]
    ELSE LET d == DivBits(Head(X), LimbBits, dn, 0, rem)
         IN  DivLarge(Tail(X), dn, Append(q, d.q), d.r)

\* the number the decimal digits ds spell, after acc
RECURSIVE FromDigits(_, _)
FromDigits(ds, acc) ==
    IF ds = <<>> THEN acc
    ELSE LET k == Min(Len(ds), 4)
         IN  FromDigits(SubSeq(ds, k + 1, Len(ds)),
                        MulSmall(acc, 10^k, SatVal(SubSeq(ds, 1, k), 10, 0, 10^k)))

\* X divided by 10^n, rounded down; sticky: something was rounded away
RECURSIVE DivPow10(_, _, _)
DivPow10(X, n, sticky) ==
    IF n = 0 THEN [q |-> X, sticky |-> sticky]
    ELSE LET k == Min(n, 6)
             d == DivSmall(X, 10^k, <<>>, 0)
         IN  DivPow10(d.q, n - k, sticky \/ d.r # 0)

\* the number of bits of X
Bits(X) ==
    IF X = <<>> THEN 0
    ELSE LimbBits * (Len(X) - 1)
            + (CHOOSE b \in 1..LimbBits : X[1] >= 2^(b - 1) /\ X[1] < 2^b)

Odd(X) == X # <<>> /\ X[Len(X)] % 2 = 1

\* X divided by 2^k, rounded down; sticky: something was rounded away
ShiftRight(X, k) ==
    LET keep == Max(0, Len(X) - (k \div LimbBits))
        d == DivSmall(SubSeq(X, 1, keep), 2^(k % LimbBits), <<>>, 0)
    IN  [q |-> d.q,
         sticky |-> d.r # 0 \/ \E i \in (keep + 1)..Len(X) : X[i] # 0]

\* X times 2^k
ShiftLeft(X, k) ==
    IF X = <<>> THEN <<>>
    ELSE MulSmall(X, 2^(k % LimbBits), 0) \o Zeros(k \div LimbBits)

\* X without the zero limbs that end it
Core(X) == SubSeq(X, 1, LastIn(X, 1..(Base - 1)))

\* q halved and rounded to the nearest, ties to even; sticky: q had more
\* behind it
RoundHalf(q, sticky) ==
    LET m == DivSmall(q, 2, <<>>, 0)
    IN  IF m.r = 1 /\ (sticky \/ Odd(m.q)) THEN MulSmall(m.q, 1, 1) ELSE m.q

\* the quotient a of X by 2^(sh - 1) halved, rounded and times 2^sh
RoundShifted(a, sticky, sh) == ShiftLeft(RoundHalf(a.q, sticky \/ a.sticky), sh)

\* X, with something more behind it when sticky, rounded to the 53 significant
\* bits of a double, ties to even; the zero limbs that end X are set aside
Round53(X, sticky) ==
    LET sh == Bits(Core(X)) - 53
    IN  IF sh <= 0 THEN X
        ELSE RoundShifted(ShiftRight(Core(X), sh - 1), sticky, sh)
                \o Zeros(Len(X) - Len(Core(X)))

----------------------------------------------------------------------------
(* float(duration_val) *)

\* A float is [st, sign, x].  st "ok": the double sign * x / 2^FracBits, x a
\* natural number; zero and the doubles from 2^TinyExp up to 2^HugeExp are
\* such numbers.  st "tiny": the double of a number that is not zero, below
\* 2^TinyExp in magnitude, of which only the sign is kept: as a week count
\* it is less than a tenth of a microsecond.  st "huge": a finite double of
\* magnitude 2^HugeExp or more.  st "inf", "nan": the double is infinite,
\* not a number.  st "ValueError", "TypeError": float() raises.
FloatOf(st, sign, x) == [st |-> st, sign |-> sign, x |-> x]
Raises(exc) == FloatOf(exc, 1, <<>>)

FracLimbs == 10
FracBits == FracLimbs * LimbBits
TinyExp == -43
HugeExp == 30

\* A double of 2^-44 or more is a multiple of 2^-96, and the number half way
\* between two of them has no more than 97 decimals: the decimals of a
\* numeral after the 97th only tell whether the numeral is above it.
FracDigits == 97

\* A numeral 0.D * 10^pos with a first digit that is not 0 is below 10^-13,
\* and its double below 2^TinyExp, when pos < MinPos; it is 10^10 or more,
\* and its double above 2^HugeExp, when pos > MaxPos.
MinPos == -12
MaxPos == 10

\* An exponent this large decides the range of the double whatever the
\* digits of a numeral of fewer characters are.
ExpCap == 10^8

\* 2^1024 - 2^970: a numeral of at least this much is an infinite double
MaxDoublePos == 309
MaxDoubleDigits ==
    <<1, 7, 9, 7, 6, 9, 3, 1, 3, 4, 8, 6, 2, 3, 1, 5, 8, 0, 7, 9, 3, 7, 2, 8,
      9, 7, 1, 4, 0, 5, 3, 0, 3, 4, 1, 5, 0, 7, 9, 9, 3, 4, 1, 3, 2, 7, 1, 0,
      0, 3, 7, 8, 2, 6, 9, 3, 6, 1, 7, 3, 7, 7, 8, 9, 8, 0, 4, 4, 4, 9, 6, 8,
      2, 9, 2, 7, 6, 4, 7, 5, 0, 9, 4, 6, 6, 4, 9, 0, 1, 7, 9, 7, 7, 5, 8, 7,
      2, 0, 7, 0, 9, 6, 3, 3, 0, 2, 8, 6, 4, 1, 6, 6, 9, 2, 8, 8, 7, 9, 1, 0,
      9, 4, 6, 5, 5, 5, 5, 4, 7, 8, 5, 1, 9, 4, 0, 4, 0, 2, 6, 3, 0, 6, 5, 7,
      4, 8, 8, 6, 7, 1, 5, 0, 5, 8, 2, 0, 6, 8, 1, 9, 0, 8, 9, 0, 2, 0, 0, 0,
      7, 0, 8, 3, 8, 3, 6, 7, 6, 2, 7, 3, 8, 5, 4, 8, 4, 5, 8, 1, 7, 7, 1, 1,
      5, 3, 1, 7, 6, 4, 4, 7, 5, 7, 3, 0, 2, 7, 0, 0, 6, 9, 8, 5, 5, 5, 7, 1,
      3, 6, 6, 9, 5, 9, 6, 2, 2, 8, 4, 2, 9, 1, 4, 8, 1, 9, 8, 6, 0, 8, 3, 4,
      9, 3, 6, 4, 7, 5, 2, 9, 2, 7, 1, 9, 0, 7, 4, 1, 6, 8, 4, 4, 4, 3, 6, 5,
      5, 1, 0, 7, 0, 4, 3, 4, 2, 7, 1, 1, 5, 5, 9, 6, 9, 9, 5, 0, 8, 0, 9, 3,
      0, 4, 2, 8, 8, 0, 1, 7, 7, 9, 0, 4, 1, 7, 4, 4, 9, 7, 7, 9, 2>>

\* Characters are Unicode code points.  What float() strips from both ends of
\* a string: Py_UNICODE_ISSPACE
WhiteSpace ==
    {9, 10, 11, 12, 13, 32, 133, 160, 5760, 8232, 8233, 8239, 8287, 12288}
        \cup (8192..8202)

\* The code points of the digits zero; the nine that follow each are its
\* digits one to nine (the Unicode decimal digits)
DigitZeros ==
    {48, 1632, 1776, 1984, 2406, 2534, 2662, 2790, 2918, 3046, 3174, 3302,
     3430, 3558, 3664, 3792, 3872, 4160, 4240, 6112, 6160, 6470, 6608, 6784,
     6800, 6992, 7088, 7232, 7248, 42528, 43216, 43264, 43472, 43504, 43600,
     44016, 65296, 66720, 68912, 69734, 69872, 69942, 70096, 70384, 70736,
     70864, 71248, 71360, 71472, 71904, 72016, 72784, 73040, 73120, 92768,
     92864, 93008, 120782, 120792, 120802, 120812, 120822, 123200, 123632,
     125264, 130032}

IsDigit(c) == c \in 48..57 \/ (c > 127 /\ \E z \in DigitZeros : c \in z..(z + 9))
DigitVal(c) ==
    IF c \in 48..57 THEN c - 48 ELSE c - (CHOOSE z \in DigitZeros : c \in z..(z + 9))

\* ASCII lower case
Lower(c) == IF c \in 65..90 THEN c + 32 ELSE c
LowerSeq(t) == [i \in 1..Len(t) |-> Lower(t[i])]

\* t without the white space at its ends
Trim(t) ==
    IF \A i \in 1..Len(t) : t[i] \in WhiteSpace THEN <<>>
    ELSE LET first == CHOOSE i \in 1..Len(t) :
                         t[i] \notin WhiteSpace /\ \A j \in 1..(i - 1) : t[j] \in WhiteSpace
             last == CHOOSE i \in 1..Len(t) :
                        t[i] \notin WhiteSpace /\ \A j \in (i + 1)..Len(t) : t[j] \in WhiteSpace
         IN  SubSeq(t, first, last)

\* digits, with single underscores between digits only
IsDigitGroup(g) ==
    /\ g # <<>>
    /\ IsDigit(g[1])
    /\ IsDigit(g[Len(g)])
    /\ \A i \in 1..Len(g) : IsDigit(g[i]) \/ g[i] = 95
    /\ \A i \in 1..(Len(g) - 1) : ~(g[i] = 95 /\ g[i + 1] = 95)

DigitsOf(g) == LET ds == SelectSeq(g, IsDigit) IN [i \in 1..Len(ds) |-> DigitVal(ds[i])]

\* What a numeral spells is [st, sign, digits, pos].  st "ok": the number
\* sign * 0.digits * 10^pos, digits without a leading 0 and <<>> for zero.
Numeral(st, sign, digits, pos) == [st |-> st, sign |-> sign, digits |-> digits, pos |-> pos]

\* the number with integer digits ip, fraction digits fp and exponent e
Decimal(sign, ip, fp, e) ==
    LET all == ip \o fp
        lead == FirstIn(all, 1..9)
    IN  IF lead = 0 THEN Numeral("ok", sign, <<>>, 0)
        ELSE Numeral("ok", sign, SubSeq(all, lead, Len(all)), Len(ip) - (lead - 1) + e)

\* the number the decimal digits ds spell, ExpCap at most
Capped(ds) == IF Len(ds) > 9 THEN ExpCap ELSE SatVal(ds, 10, 0, ExpCap)

\* what the characters after an "e" spell: an exponent, ok when well formed
Exponent(expo) ==
    LET eDig == IF expo # <<>> /\ expo[1] \in {43, 45} THEN Tail(expo) ELSE expo
    IN  [ok |-> IsDigitGroup(eDig),
         e |-> (IF expo # <<>> /\ expo[1] = 45 THEN -1 ELSE 1)
                  * Capped(Strip(DigitsOf(eDig)))]

\* what the characters mant before the exponent ex spell
Mantissa(sign, mant, ex) ==
    LET dot == FirstIn(mant, {46})
        ip == IF dot = 0 THEN mant ELSE SubSeq(mant, 1, dot - 1)
        fp == IF dot = 0 THEN <<>> ELSE SubSeq(mant, dot + 1, Len(mant))
    IN  IF /\ (ip = <<>> \/ IsDigitGroup(ip))
           /\ (fp = <<>> \/ IsDigitGroup(fp))
           /\ (ip # <<>> \/ fp # <<>>)
           /\ ex.ok
        THEN Decimal(sign, DigitsOf(ip), DigitsOf(fp), ex.e)
        ELSE Numeral("ValueError", sign, <<>>, 0)

\* what the characters t spell, ePos the place of the first "e" or 0
ParseNumber(sign, t, ePos) ==
    IF ePos = 0 THEN Mantissa(sign, t, [ok |-> TRUE, e |-> 0])
    ELSE Mantissa(sign, SubSeq(t, 1, ePos - 1), Exponent(SubSeq(t, ePos + 1, Len(t))))

\* what the characters after the sign spell
ParseUnsigned(sign, t) ==
    IF LowerSeq(t) \in {<<105, 110, 102>>, <<105, 110, 102, 105, 110, 105, 116, 121>>}
    THEN Numeral("inf", sign, <<>>, 0)
    ELSE IF LowerSeq(t) = <<110, 97, 110>> THEN Numeral("nan", sign, <<>>, 0)
    ELSE ParseNumber(sign, t, FirstIn(LowerSeq(t), {101}))

\* what a string without white space at its ends spells
ParseTrimmed(u) ==
    IF u = <<>> THEN Numeral("ValueError", 1, <<>>, 0)
    ELSE ParseUnsigned(IF u[1] = 45 THEN -1 ELSE 1,
                       IF u[1] \in {43, 45} THEN Tail(u) ELSE u)

\* what a string spells
ParseFloat(t) == ParseTrimmed(Trim(t))

\* digits spell at least as much as bound does, both after the point
GeqDigits(digits, bound) ==
    LET d(i) == IF i <= Len(digits) THEN digits[i] ELSE 0
        differ == {i \in 1..Len(bound) : d(i) # bound[i]}
    IN  differ = {} \/ LET i == CHOOSE i \in differ : \A j \in differ : i <= j
                       IN  d(i) > bound[i]

\* the float that is the double x / 2^FracBits
Classify(sign, x) ==
    IF Bits(x) > FracBits + HugeExp THEN FloatOf("huge", sign, <<>>)
    ELSE IF Bits(x) <= FracBits + TinyExp THEN FloatOf("tiny", sign, <<>>)
    ELSE FloatOf("ok", sign, x)

\* the double nearest to whole + frac.q / 2^FracBits, with something more
\* behind it when frac.sticky
Nearest(sign, whole, frac) ==
    Classify(sign, Round53(Strip(whole \o Pad(frac.q, FracLimbs)), frac.sticky))

\* the quotient and remainder d as a fraction
Inexact(d) == [q |-> d.q, sticky |-> d.r # 0]

\* the double nearest to a / dn
NearestRatio(sign, a, dn) ==
    IF a = 0 THEN FloatOf("ok", sign, <<>>)
    ELSE Nearest(sign, NatLimbs(a \div dn),
                 Inexact(IF dn < 2^21
                         THEN DivSmall(NatLimbs(a % dn) \o Zeros(FracLimbs), dn, <<>>, 0)
                         ELSE DivLarge(NatLimbs(a % dn) \o Zeros(FracLimbs), dn, <<>>, 0)))

\* the digits / 10^Len(digits) to FracBits bits after the point, rounded down
Fraction(digits, sticky) ==
    DivPow10(FromDigits(digits, <<>>) \o Zeros(FracLimbs), Len(digits), sticky)

\* the double nearest to the number with integer digits ip and fraction
\* digits fp
NearestDecimal(sign, ip, fp) ==
    Nearest(sign, FromDigits(ip, <<>>),
            Fraction(SubSeq(fp, 1, Min(Len(fp), FracDigits)),
                     \E i \in (FracDigits + 1)..Len(fp) : fp[i] # 0))

\* the double nearest to what a numeral spells
ToDouble(n) ==
    IF n.st # "ok" THEN FloatOf(n.st, n.sign, <<>>)
    ELSE IF n.digits = <<>> THEN FloatOf("ok", n.sign, <<>>)
    ELSE IF \/ n.pos > MaxDoublePos
            \/ n.pos = MaxDoublePos /\ GeqDigits(n.digits, MaxDoubleDigits)
    THEN FloatOf("inf", n.sign, <<>>)
    ELSE IF n.pos > MaxPos THEN FloatOf("huge", n.sign, <<>>)
    ELSE IF n.pos < MinPos THEN FloatOf("tiny", n.sign, <<>>)
    ELSE IF n.pos <= 0 THEN NearestDecimal(n.sign, <<>>, Zeros(-n.pos) \o n.digits)
    ELSE NearestDecimal(n.sign,
                        SubSeq(n.digits \o Zeros(n.pos - Len(n.digits)), 1, n.pos),
                        SubSeq(n.digits, n.pos + 1, Len(n.digits)))

\* the outcome of float(v)
float(v) ==
    IF v.k \in {"num", "bool"}
    THEN NearestRatio(IF v.num < 0 THEN -1 ELSE 1, IF v.num < 0 THEN -v.num ELSE v.num,
                      v.den)
    ELSE IF v.k \in {"inf", "nan"} THEN FloatOf(v.k, v.num, <<>>)
    ELSE IF v.k = "str" THEN ToDouble(ParseFloat(v.s))
    ELSE Raises("TypeError")

----------------------------------------------------------------------------
(* timedelta(weeks=...) *)

\* the whole weeks of a double, capped
WholeWeeks(w, cap) == SatVal(SubSeq(w.x, 1, Max(0, Len(w.x) - FracLimbs)), Base, 0, cap)

\* the fraction of a week of a double, times 2^FracBits
FracWeeks(w) == Strip(SubSeq(w.x, Max(0, Len(w.x) - FracLimbs) + 1, Len(w.x)))

\* a week count no date arithmetic survives: a week later than 9999-12-31
HugeWeeks == 600000
Huge(w) == WholeWeeks(w, HugeWeeks) >= HugeWeeks

\* X * m, the zero limbs that end X set aside
Times(X, m) == MulSmall(Core(X), m, 0) \o Zeros(Len(X) - Len(Core(X)))

\* The fraction of a week times us_per_week = 2^13 * 189 * 390625, as a
\* double: microseconds times 2^MicroBits
MicroLimbs == 9
MicroBits == MicroLimbs * LimbBits
Micros(frac) ==
    Times(Round53(Times(Times(frac, 189), 390625), FALSE), 2^(13 + MicroBits - FracBits))

\* the fraction rest / 2^MicroBits of a microsecond rounds up: it is above
\* a half, or a half after an odd number of microseconds
RoundsUp(rest, odd) ==
    \/ rest[1] > Base \div 2
    \/ rest[1] = Base \div 2 /\ (odd \/ \E i \in 2..MicroLimbs : rest[i] # 0)

\* days, and the whole microseconds (as seconds whole.q and microseconds
\* whole.r) with the fraction rest of a microsecond rounded to the nearest
Rounded(days, whole, rest) ==
    [d |-> days,
     s |-> SatVal(whole.q, Base, 0, 7 * SecondsPerDay),
     us |-> whole.r + (IF RoundsUp(rest, whole.r % 2 = 1) THEN 1 ELSE 0)]

\* days and m / 2^MicroBits microseconds
Parts(days, m) ==
    Rounded(days,
            DivSmall(SubSeq(m, 1, Max(0, Len(m) - MicroLimbs)), Million, <<>>, 0),
            Pad(SubSeq(m, Max(0, Len(m) - MicroLimbs) + 1, Len(m)), MicroLimbs))

\* What timedelta makes of the double w, not Huge, before the sign: the
\* whole weeks times 7 days, exactly; the fraction of a week times
\* us_per_week as a double, its whole microseconds taken and the rest
\* rounded to the nearest, ties to the even microsecond.
WeekParts(w) ==
    IF w.st = "tiny" \/ FracWeeks(w) = <<>>
    THEN [d |-> 7 * WholeWeeks(w, HugeWeeks), s |-> 0, us |-> 0]
    ELSE Parts(7 * WholeWeeks(w, HugeWeeks), Micros(FracWeeks(w)))

\* a timedelta of p with its sign
Signed(sign, p) == Norm(sign * p.d, sign * p.s, sign * p.us)

\* a variant that keeps the whole weeks only
timedelta_whole_weeks(w) == Norm(w.sign * 7 * WholeWeeks(w, HugeWeeks), 0, 0)

\* timedelta(weeks=w) for a double w that is not Huge
timedelta_weeks(w) == Signed(w.sign, WeekParts(w))

----------------
(* calculate_schedule: one iteration of the for loop *)

\* variants: a sequential task starts a day after the cursor; the fixed start
\* is ignored
StartDateNextDay(task, cur) ==
    IF Truthy(task.start_date) THEN parse_date(task.start_date)
    ELSE Add(cur, Norm(1, 0, 0))
StartDateCursor(task, cur) == cur

\* "Determine Start Date": the fixed start when one is given, else the cursor
StartDate(task, cur) ==
    IF Truthy(task.start_date) THEN parse_date(task.start_date) ELSE cur

\* a variant without the override to the project start
SpanStartKept(task, start, ps) == start

\* the start of a "start2end" task: start is what "Determine Start Date" chose
SpanStart(task, start, ps) ==
    IF Truthy(task.start_date) THEN parse_date(task.start_date) ELSE ps

\* "Standard duration in weeks": start_date + timedelta(weeks=weeks)
NumericEnd(start, w) == Add(start, timedelta_weeks(w))

\* variants: the cursor follows every task; the cursor skips fixed-start tasks
NextCursorAlways(task, cur, end) == end
NextCursorSkipFixed(task, cur, end) ==
    IF task.duration_weeks # Start2End /\ ~Truthy(task.start_date) THEN end ELSE cur

\* "Update current_date for the *next* task"
NextCursor(task, cur, end) ==
    IF task.duration_weeks # Start2End THEN end ELSE cur

\* a variant with the operands of the difference swapped
RowSwapped(name, start, end) ==
    [Task |-> name, Start |-> start, End |-> end, DurationDays |-> Days(Sub(start, end))]

\* the row appended to tasks_data
Row(name, start, end) ==
    [Task |-> name, Start |-> start, End |-> end, DurationDays |-> Days(Sub(end, start))]

\* a variant that inserts at the front
PrependRow(data, row) == <<row>> \o data

\* tasks_data.append(row)
AppendRow(data, row) == Append(data, row)

\* How the iteration for one task ends: "ok" with the row and the new cursor,
\* "InvalidDuration" (except ValueError: print, sys.exit(1); raised by float
\* or, for nan, by timedelta), or an exception nothing catches: "ValueError"
\* from parse_date, "TypeError" from float, "OverflowError" from timedelta or
\* from a date past datetime.min / datetime.max.
Failed(task, cur, ps, st) == [st |-> st, row |-> Row(task.name, ps, ps), cur |-> cur]
Appended(task, cur, start, end) ==
    [st |-> "ok", row |-> Row(task.name, start, end), cur |-> NextCursor(task, cur, end)]

\* the iteration from "end_date = start_date + timedelta(weeks=weeks)" on
EndTask(task, cur, ps, start, end) ==
    IF end.d < 1 \/ end.d > MaxOrdinal THEN Failed(task, cur, ps, "OverflowError")
    ELSE Appended(task, cur, start, end)

\* the iteration from "weeks = float(duration_val)" on
NumericTask(task, cur, ps, start, weeks) ==
    IF weeks.st \in {"ValueError", "nan"} THEN Failed(task, cur, ps, "InvalidDuration")
    ELSE IF weeks.st = "TypeError" THEN Failed(task, cur, ps, "TypeError")
    ELSE IF weeks.st \in {"inf", "huge"} \/ Huge(weeks)
    THEN Failed(task, cur, ps, "OverflowError")
    ELSE EndTask(task, cur, ps, start, NumericEnd(start, weeks))

\* one iteration of the loop
ResolveTask(task, cur, ps, pe) ==
    IF Truthy(task.start_date) /\ ~ValidDate(task.start_date)
    THEN Failed(task, cur, ps, "ValueError")
    ELSE IF task.duration_weeks = Start2End
    THEN Appended(task, cur, SpanStart(task, StartDate(task, cur), ps), pe)
    ELSE NumericTask(task, cur, ps, StartDate(task, cur), float(task.duration_weeks))

\* the for loop from task i on, with the cursor and the rows so far
RECURSIVE ScheduleFrom(_, _, _, _, _, _)
ScheduleFrom(tasks, i, cur, data, ps, pe) ==
    IF i > Len(tasks)
    THEN [st |-> "ok", df |-> data, project_start |-> ps, project_end |-> pe]
    ELSE LET r == ResolveTask(tasks[i], cur, ps, pe)
         IN  IF r.st = "ok"
             THEN ScheduleFrom(tasks, i + 1, r.cur, AppendRow(data, r.row), ps, pe)
             ELSE [st |-> r.st, df |-> <<>>, project_start |-> ps, project_end |-> pe]

\* calculate_schedule(config) as a function of the configuration
calculate_schedule(cfg) ==
    IF ValidDate(cfg.project.start_date) /\ ValidDate(cfg.project.end_date)
    THEN LET ps == parse_date(cfg.project.start_date)
             pe == parse_date(cfg.project.end_date)
         IN  ScheduleFrom(cfg.tasks, 1, ps, <<>>, ps, pe)
    ELSE [st |-> "ValueError", df |-> <<>>, project_start |-> NoTime,
          project_end |-> NoTime]

----------------------------------------------------------------------------
(* The configuration documents the model reads *)

TaskNames == <<"A", "B", "C">>
NameAt(i) == TaskNames[((i - 1) % Len(TaskNames)) + 1]

EarlyDate == DateStr(2026, 1, 8)
LateDate == DateStr(2026, 3, 15)

DurationVals ==
    {Num(2, 1), Num(1, 2), Num(-1, 10), Str(<<51>>), Str(<<97, 98, 99>>),
     Start2End, Null}

\* a task's duration_weeks and start_date: every duration without a start
\* date, and fixed starts inside the project and after its end
Shape(dur, start) == [duration_weeks |-> dur, start_date |-> start]
TaskShapes ==
    {Shape(dur, NoneDate) : dur \in DurationVals}
        \cup {Shape(dur, EarlyDate) :
                 dur \in {Num(2, 1), Num(1, 2), Start2End, Str(<<97, 98, 99>>)}}
        \cup {Shape(dur, LateDate) : dur \in {Num(-1, 10), Str(<<51>>), Start2End}}

Projects ==
    { [start_date |-> DateStr(2026, 1, 1), end_date |-> DateStr(2026, 3, 1),
       today_date |-> EmptyStr],
      [start_date |-> DateStr(2026, 3, 1), end_date |-> DateStr(2026, 1, 1),
       today_date |-> DateStr(2026, 2, 1)],
      [start_date |-> DateStr(2026, 1, 1), end_date |-> DateStr(2027, 6, 1),
       today_date |-> DateStr(2026, 2, 30)],
      [start_date |-> DateStr(2026, 2, 30), end_date |-> DateStr(2026, 3, 1),
       today_date |-> EmptyStr] }

\* projects in the last month a datetime can hold: the end plus three weeks
\* is within datetime.max for the first and beyond it for the second
LateProjects ==
    { [start_date |-> DateStr(9999, 12, 1), end_date |-> DateStr(9999, 12, 10),
       today_date |-> EmptyStr],
      [start_date |-> DateStr(9999, 12, 1), end_date |-> DateStr(9999, 12, 20),
       today_date |-> EmptyStr] }

\* the task shapes without a fixed start
SequentialShapes == {Shape(dur, NoneDate) : dur \in DurationVals}

\* the tasks section: n tasks named A, B, C, A, ...
TaskList(n, shapes) ==
    [i \in 1..n |->
        [name |-> NameAt(i), duration_weeks |-> shapes[i].duration_weeks,
         start_date |-> shapes[i].start_date]]

NoConfig == [project |-> [start_date |-> NoneDate, end_date |-> NoneDate,
                          today_date |-> NoneDate],
             tasks |-> <<>>]
NoResult == [df |-> <<>>, project_start |-> NoTime, project_end |-> NoTime,
             set |-> FALSE]
NoDiag == [task |-> "", value |-> Null]

----------------------------------------------------------------------------
(* The process *)

Init ==
    /\ pc = "main"
    /\ config = NoConfig
    /\ project_start = NoTime
    /\ project_end = NoTime
    /\ current_date = NoTime
    /\ tasks_data = <<>>
    /\ idx = 0
    /\ warned = FALSE
    /\ result = NoResult
    /\ outcome = "running"
    /\ diagnostic = NoDiag
    /\ exit_status = -1
    /\ saved = 0

\* a variant that exits with status 0
DieStatus0(err) ==
    /\ pc' = "exit"
    /\ outcome' = err
    /\ exit_status' = 0

\* the process ends with status 1: sys.exit(1) or an uncaught exception
Die(err) ==
    /\ pc' = "exit"
    /\ outcome' = err
    /\ exit_status' = 1

\* load_config: the file does not exist
LoadConfigNotFound ==
    /\ pc = "main"
    /\ Die("ConfigNotFound")
    /\ UNCHANGED <<config, project_start, project_end, current_date, tasks_data,
                   idx, warned, result, diagnostic, saved>>

\* load_config: yaml.safe_load raises YAMLError
LoadConfigParseError ==
    /\ pc = "main"
    /\ Die("ConfigParseError")
    /\ UNCHANGED <<config, project_start, project_end, current_date, tasks_data,
                   idx, warned, result, diagnostic, saved>>

\* load_config returns the parsed document
LoadConfig ==
    /\ pc = "main"
    /\ \E n \in 0..MaxTasks :
         \/ \E p \in Projects, shapes \in [1..n -> TaskShapes] :
               config' = [project |-> p, tasks |-> TaskList(n, shapes)]
         \/ \E p \in LateProjects, shapes \in [1..n -> SequentialShapes] :
               config' = [project |-> p, tasks |-> TaskList(n, shapes)]
    /\ pc' = "calc"
    /\ UNCHANGED <<project_start, project_end, current_date, tasks_data, idx,
                   warned, result, outcome, diagnostic, exit_status, saved>>

WarnDays == 450

\* calculate_schedule up to the for loop
CalcBegin ==
    /\ pc = "calc"
    /\ IF ValidDate(config.project.start_date) /\ ValidDate(config.project.end_date)
       THEN LET ps == parse_date(config.project.start_date)
                pe == parse_date(config.project.end_date)
            IN  /\ project_start' = ps
                /\ project_end' = pe
                /\ warned' = (Days(Sub(pe, ps)) > WarnDays)
                /\ tasks_data' = <<>>
                /\ current_date' = ps
                /\ pc' = "loop"
                /\ UNCHANGED <<outcome, exit_status>>
       ELSE /\ Die("ValueError")
            /\ UNCHANGED <<project_start, project_end, warned, tasks_data, current_date>>
    /\ UNCHANGED <<config, idx, result, diagnostic, saved>>

\* one iteration of "for task in config["tasks"]"
CalcTask ==
    /\ pc = "loop"
    /\ idx < Len(config.tasks)
    /\ LET task == config.tasks[idx + 1]
           r == ResolveTask(task, current_date, project_start, project_end)
       IN  IF r.st = "ok"
           THEN /\ tasks_data' = AppendRow(tasks_data, r.row)
                /\ current_date' = r.cur
                /\ idx' = idx + 1
                /\ UNCHANGED <<pc, outcome, exit_status, diagnostic>>
           ELSE /\ Die(r.st)
                /\ diagnostic' = IF r.st = "InvalidDuration"
                                 THEN [task |-> task.name, value |-> task.duration_weeks]
                                 ELSE diagnostic
                /\ UNCHANGED <<tasks_data, current_date, idx>>
    /\ UNCHANGED <<config, project_start, project_end, warned, result, saved>>

\* return pd.DataFrame(tasks_data), project_start, project_end
CalcReturn ==
    /\ pc = "loop"
    /\ idx = Len(config.tasks)
    /\ result' = [df |-> tasks_data, project_start |-> project_start,
                  project_end |-> project_end, set |-> TRUE]
    /\ pc' = "chart"
    /\ UNCHANGED <<config, project_start, project_end, current_date, tasks_data,
                   idx, warned, outcome, diagnostic, exit_status, saved>>

\* a datetime plus a timedelta is past datetime.max: OverflowError
PastMax(dt, td) == Add(dt, td).d > MaxOrdinal

\* "text_x = end + timedelta(days=3)", the label of a bar of no more than 40
\* days, raises OverflowError
LabelOverflows(row) ==
    /\ Days(Sub(row.End, row.Start)) <= 40
    /\ PastMax(row.End, Norm(3, 0, 0))

\* create_gantt_chart(df, project_start, project_end, config): "ok" when
\* plt.savefig is reached, else the exception that ends it before.  In the
\* order of the code: df["DurationDays"] (a KeyError on the column-less frame
\* of an empty task list), project_end + timedelta(weeks=3), the labels of
\* the bars, config["project"]["today_date"] and parse_date of it.  The calls
\* into matplotlib and pandas are taken to return.
create_gantt_chart(df, ps, pe, cfg) ==
    IF Len(df) = 0 THEN "KeyError"
    ELSE IF PastMax(pe, Norm(7 * 3, 0, 0)) THEN "OverflowError"
    ELSE IF \E i \in 1..Len(df) : LabelOverflows(df[i]) THEN "OverflowError"
    ELSE IF cfg.project.today_date.k = "none" THEN "KeyError"
    ELSE IF cfg.project.today_date.k = "empty" \/ ValidDate(cfg.project.today_date)
    THEN "ok"
    ELSE "ValueError"

\* main: create_gantt_chart(df, p_start, p_end, config)
CreateGanttChart ==
    /\ pc = "chart"
    /\ LET st == create_gantt_chart(result.df, result.project_start,
                                    result.project_end, config)
       IN  IF st = "ok"
           THEN /\ saved' = saved + 1
                /\ pc' = "done"
                /\ outcome' = "ok"
                /\ exit_status' = 0
           ELSE /\ Die(st)
                /\ UNCHANGED saved
    /\ UNCHANGED <<config, project_start, project_end, current_date, tasks_data,
                   idx, warned, result, diagnostic>>

Next ==
    \/ LoadConfigNotFound
    \/ LoadConfigParseError
    \/ LoadConfig
    \/ CalcBegin
    \/ CalcTask
    \/ CalcReturn
    \/ CreateGanttChart

Spec == Init /\ [][Next]_vars

----------------------------------------------------------------------------
(* Vocabulary of the properties *)

\* the number a numeral n spells, as a fraction
Ratio(n) ==
    LET decimals == Max(0, Len(n.digits) - n.pos)
        all == Zeros(-n.pos) \o n.digits \o Zeros(n.pos - Len(n.digits))
    IN  [st |-> n.st,
         sign |-> n.sign,
         whole |-> SatVal(SubSeq(all, 1, Len(all) - decimals), 10, 0, 10^9),
         num |-> SatVal(all, 10, 0, 10^9),
         den |-> 10^Min(decimals, 9)]

\* The week count of a task as the configuration writes it: when st is "ok",
\* the number sign * num / den, with whole weeks before the point.
Written(t) ==
    LET v == t.duration_weeks
    IN  IF v.k = "str" THEN Ratio(ParseFloat(v.s))
        ELSE [st |-> IF v.k \in {"num", "bool"} THEN "ok" ELSE v.k,
              sign |-> IF v.num < 0 THEN -1 ELSE 1,
              whole |-> (IF v.num < 0 THEN -v.num ELSE v.num) \div v.den,
              num |-> IF v.num < 0 THEN -v.num ELSE v.num,
              den |-> v.den]

\* A week count w below 8192 written with no more than 8 decimals: the double
\* that float() makes of it gives the microsecond its written value gives.
IsPlain(w) == w.st = "ok" /\ w.whole < 8192 /\ 10^8 % w.den = 0

\* the duration is written as a number
IsNumeric(t) == Written(t).st = "ok"
IsSpan(t) == t.duration_weeks = Start2End
HasFixedStart(t) == t.start_date.k = "str"

\* midnight of the day with the given ordinal
Midnight(ord) == [d |-> ord, s |-> 0, us |-> 0]

\* the configured dates
ConfiguredStart == Midnight(Ordinal(config.project.start_date.y,
                                    config.project.start_date.m,
                                    config.project.start_date.d))
ConfiguredEnd == Midnight(Ordinal(config.project.end_date.y,
                                  config.project.end_date.m,
                                  config.project.end_date.d))
FixedStartOf(t) == Midnight(Ordinal(t.start_date.y, t.start_date.m, t.start_date.d))

\* a is not after b; a is before b
Leq(a, b) ==
    \/ a.d < b.d
    \/ a.d = b.d /\ a.s < b.s
    \/ a.d = b.d /\ a.s = b.s /\ a.us <= b.us
Before(a, b) == Leq(a, b) /\ a # b

\* from a to b: whole seconds and microseconds, component by component
SecsBetween(a, b) == (b.d - a.d) * 86400 + (b.s - a.s)
UsBetween(a, b) == b.us - a.us
\* the whole seconds from a to b, rounded down
FloorSecs(a, b) == SecsBetween(a, b) + (IF UsBetween(a, b) < 0 THEN -1 ELSE 0)
\* dd is the time from a to b in whole days, rounded down
IsFloorDays(dd, a, b) ==
    /\ dd * 86400 <= FloorSecs(a, b)
    /\ FloorSecs(a, b) < (dd + 1) * 86400

Abs(n) == IF n < 0 THEN -n ELSE n

Resolved == 1..Len(tasks_data)

\* End of the most recent numeric-duration row among the first j, else the project start
RECURSIVE LastNumericEnd(_)
LastNumericEnd(j) ==
    IF j = 0 THEN ConfiguredStart
    ELSE IF IsNumeric(config.tasks[j]) THEN tasks_data[j].End
    ELSE LastNumericEnd(j - 1)

\* calculate_schedule has started its loop (the project dates parsed)
Scheduling == pc \in {"loop", "chart", "done"}

----------------------------------------------------------------------------
(* C1 *)

AllSequential ==
    \A i \in 1..Len(config.tasks) :
        IsNumeric(config.tasks[i]) /\ ~HasFixedStart(config.tasks[i])

\* C1: when every duration is a numeric week count and no task has a fixed
\* start, the rows calculate_schedule returns are contiguous: the first starts
\* at the project start and each row ends where the next one starts.
C1_Contiguous ==
    (result.set /\ AllSequential) =>
        /\ Len(result.df) > 0 => result.df[1].Start = ConfiguredStart
        /\ \A i \in 1..(Len(result.df) - 1) : result.df[i].End = result.df[i + 1].Start

C1_Witness ==
    /\ result.set
    /\ AllSequential
    /\ Len(result.df) >= 3
    /\ \E i \in 1..Len(result.df) : config.tasks[i].duration_weeks = Num(1, 2)
    /\ \E i \in 1..Len(result.df) : Written(config.tasks[i]).sign < 0

----------------------------------------------------------------------------
(* C2 *)

\* C2: a resolved task that supplies a fixed start date starts at that date,
\* whatever the cursor was and whether the duration is numeric or "start2end".
C2_FixedStart ==
    \A i \in Resolved :
        HasFixedStart(config.tasks[i]) =>
            tasks_data[i].Start = FixedStartOf(config.tasks[i])

C2_Witness ==
    /\ \E i \in Resolved :
          /\ i > 1
          /\ HasFixedStart(config.tasks[i])
          /\ IsNumeric(config.tasks[i])
          /\ LastNumericEnd(i - 1) # tasks_data[i].Start
    /\ \E j \in Resolved : HasFixedStart(config.tasks[j]) /\ IsSpan(config.tasks[j])

----------------------------------------------------------------------------
(* C3 *)

\* C3: a resolved "start2end" task ends at the project end; it starts at its
\* fixed start date when it has one and at the project start otherwise,
\* wherever the cursor stands.
C3_SpanToEnd ==
    \A i \in Resolved :
        IsSpan(config.tasks[i]) =>
            /\ tasks_data[i].End = ConfiguredEnd
            /\ tasks_data[i].Start =
                  IF HasFixedStart(config.tasks[i]) THEN FixedStartOf(config.tasks[i])
                  ELSE ConfiguredStart

C3_Witness ==
    \E i \in Resolved :
        /\ i > 1
        /\ IsSpan(config.tasks[i])
        /\ ~HasFixedStart(config.tasks[i])
        /\ LastNumericEnd(i - 1) # ConfiguredStart
        /\ tasks_data[i].Start = ConfiguredStart
        /\ tasks_data[i].End = ConfiguredEnd

----------------------------------------------------------------------------
(* C4 *)

SpanStep ==
    /\ pc = "loop"
    /\ idx < Len(config.tasks)
    /\ IsSpan(config.tasks[idx + 1])
    /\ idx' = idx + 1

C4_StartAfterSpan ==
    \A i \in Resolved :
        (i > 1 /\ IsSpan(config.tasks[i - 1]) /\ IsNumeric(config.tasks[i])
              /\ ~HasFixedStart(config.tasks[i])) =>
            tasks_data[i].Start = LastNumericEnd(i - 1)

\* C4: resolving a "start2end" task leaves the cursor unchanged, so the next
\* sequential task after one or more "start2end" tasks starts at the end of the
\* most recent numeric-duration task before them, or at the project start.
C4_SpanKeepsCursor ==
    /\ [][SpanStep => current_date' = current_date]_vars
    /\ []C4_StartAfterSpan

\* [A 2 weeks, B start2end, C 3 weeks] from 2026-01-01: C starts 2026-01-15
C4_Witness ==
    /\ Len(tasks_data) = 3
    /\ config.project.start_date = DateStr(2026, 1, 1)
    /\ config.tasks[1].duration_weeks = Num(2, 1)
    /\ ~HasFixedStart(config.tasks[1])
    /\ IsSpan(config.tasks[2])
    /\ config.tasks[3].duration_weeks = Str(<<51>>)
    /\ ~HasFixedStart(config.tasks[3])
    /\ tasks_data[3].Start = Midnight(Ordinal(2026, 1, 15))
    /\ tasks_data[3].Start = tasks_data[1].End
    /\ tasks_data[3].Start # tasks_data[2].End

----------------------------------------------------------------------------
(* C5 *)

\* neither "start2end" nor something float() accepts
InvalidDurationTask(t) ==
    ~IsSpan(t) /\ Written(t).st \in {"ValueError", "null"}

Terminated == pc \in {"done", "exit"}

ProjectDatesParse ==
    /\ ValidDate(config.project.start_date)
    /\ ValidDate(config.project.end_date)

\* C5: a run over tasks one of which has a duration that is neither "start2end"
\* nor a number ends with the invalid-duration diagnostic naming a task with
\* such a duration, exit status 1, and calculate_schedule returns nothing.
C5_InvalidDuration ==
    (Terminated /\ config # NoConfig /\ ProjectDatesParse
        /\ \E i \in 1..Len(config.tasks) : InvalidDurationTask(config.tasks[i])) =>
        /\ outcome = "InvalidDuration"
        /\ exit_status = 1
        /\ ~result.set
        /\ \E i \in 1..Len(config.tasks) :
              /\ InvalidDurationTask(config.tasks[i])
              /\ diagnostic = [task |-> config.tasks[i].name,
                               value |-> config.tasks[i].duration_weeks]

----------------------------------------------------------------------------
(* C6 *)

\* C6: what calculate_schedule returns has one row per task, in the order of
\* the tasks and carrying their names, and the configured project start and end.
C6_OneToOne ==
    result.set =>
        /\ Len(result.df) = Len(config.tasks)
        /\ \A i \in 1..Len(result.df) : result.df[i].Task = config.tasks[i].name
        /\ result.project_start = ConfiguredStart
        /\ result.project_end = ConfiguredEnd

C6_Witness ==
    /\ result.set
    /\ Len(result.df) = 3
    /\ result.df[1].Task # result.df[3].Task

----------------------------------------------------------------------------
(* C7 *)

FatalErrors == {"ConfigNotFound", "ConfigParseError", "InvalidDuration"}

C7_State ==
    /\ saved <= 1
    /\ saved = 1 =>
          /\ result.set
          /\ Len(result.df) = Len(config.tasks)
          /\ idx = Len(config.tasks)
    /\ outcome \in FatalErrors =>
          /\ pc = "exit"
          /\ exit_status = 1
          /\ saved = 0

\* C7: the image is written at most once and only after every task is
\* resolved; a run that ends with ConfigNotFound, ConfigParseError or
\* InvalidDurationError has exit status 1, takes no further step and never
\* writes the image.
C7_NoPartialOutput ==
    /\ []C7_State
    /\ [][pc # "exit" /\ (saved' # saved => idx = Len(config.tasks))]_vars

C7_Witness ==
    /\ outcome = "InvalidDuration"
    /\ Len(tasks_data) >= 2
    /\ exit_status = 1
    /\ saved = 0

----------------------------------------------------------------------------
(* C8 *)

\* C8: the cursor is the end of the most recently resolved numeric-duration
\* task (the project start when there is none), fixed-start tasks included,
\* and a sequential task that follows a numeric-duration task starts at its end.
C8_Cursor ==
    Scheduling =>
        /\ current_date = LastNumericEnd(Len(tasks_data))
        /\ \A i \in Resolved :
              (i > 1 /\ IsNumeric(config.tasks[i - 1]) /\ IsNumeric(config.tasks[i])
                  /\ ~HasFixedStart(config.tasks[i])) =>
                 tasks_data[i].Start = tasks_data[i - 1].End

\* a fixed start earlier than the cursor, then a sequential task
C8_Witness ==
    \E i \in Resolved :
        /\ i > 2
        /\ IsNumeric(config.tasks[i - 2])
        /\ IsNumeric(config.tasks[i - 1])
        /\ HasFixedStart(config.tasks[i - 1])
        /\ Before(tasks_data[i - 1].Start, tasks_data[i - 2].End)
        /\ IsNumeric(config.tasks[i])
        /\ ~HasFixedStart(config.tasks[i])
        /\ tasks_data[i].Start = tasks_data[i - 1].End
        /\ current_date = tasks_data[i].End

----------------------------------------------------------------------------
(* C9 *)

\* C9 as stated: the end of a numeric-duration task is a whole calendar date
\* and duration_days is exactly end minus start.
C9_Truncated ==
    \A i \in Resolved :
        IsNumeric(config.tasks[i]) =>
            /\ tasks_data[i].End.s = 0
            /\ tasks_data[i].End.us = 0
            /\ SecsBetween(tasks_data[i].Start, tasks_data[i].End)
                  = tasks_data[i].DurationDays * 86400
            /\ UsBetween(tasks_data[i].Start, tasks_data[i].End) = 0

\* C9, amended: the end of a numeric-duration task is its start plus the
\* timedelta of the week count as a float, a fraction of a day kept: for a
\* week count below 8192 written with no more than 8 decimals that is 7 x
\* weeks days to the nearest microsecond.  duration_days is the difference
\* rounded down to whole days, and equals it when 7 x weeks is a whole number.
C9_ExactEnd ==
    \A i \in Resolved :
        LET w == Written(config.tasks[i])
            r == tasks_data[i]
            num == w.num
            den == w.den
            secs == w.sign * SecsBetween(r.Start, r.End)
            us == w.sign * UsBetween(r.Start, r.End)
            rest == num * 604800 - secs * den
        IN  /\ w.st = "ok" => IsFloorDays(r.DurationDays, r.Start, r.End)
            /\ IsPlain(w) =>
                /\ Abs(rest) <= den
                /\ 2 * Abs(us * den - rest * 1000000) <= den
                /\ ((7 * num) % den = 0) =>
                      /\ SecsBetween(r.Start, r.End) = r.DurationDays * 86400
                      /\ UsBetween(r.Start, r.End) = 0

\* half a week from a midnight start: the end is at noon, three whole days
C9_Witness ==
    \E i \in Resolved :
        /\ config.tasks[i].duration_weeks = Num(1, 2)
        /\ tasks_data[i].Start.s = 0
        /\ tasks_data[i].End.s = 12 * 3600
        /\ tasks_data[i].End.d = tasks_data[i].Start.d + 3
        /\ tasks_data[i].DurationDays = 3

----------------------------------------------------------------------------
(* C10 *)

\* C10 as stated: every row has a start no later than its end and
\* duration_days >= 0.
C10_NonNegative ==
    \A i \in Resolved :
        /\ Leq(tasks_data[i].Start, tasks_data[i].End)
        /\ tasks_data[i].DurationDays >= 0

\* C10, amended: duration_days is end minus start in whole days, rounded down;
\* it is >= 0 exactly when start <= end, which holds for a numeric week count
\* >= 0 and for a "start2end" task whose start is not after the project end,
\* and fails for a start after the project end and for a negative week count
\* (one below 8192 written with no more than 8 decimals, and not zero).
C10_SignOfDuration ==
    \A i \in Resolved :
        LET t == config.tasks[i]
            r == tasks_data[i]
            w == Written(t)
        IN  /\ IsFloorDays(r.DurationDays, r.Start, r.End)
            /\ (r.DurationDays >= 0) <=> Leq(r.Start, r.End)
            /\ (w.st = "ok" /\ w.sign > 0) => Leq(r.Start, r.End)
            /\ IsPlain(w) => (Leq(r.Start, r.End) <=> (w.sign > 0 \/ w.num = 0))
            /\ IsSpan(t) => (Leq(r.Start, r.End) <=> Leq(r.Start, ConfiguredEnd))

C10_Witness ==
    /\ \E i \in Resolved :
          IsNumeric(config.tasks[i]) /\ tasks_data[i].DurationDays < 0
    /\ \E i \in Resolved :
          /\ IsSpan(config.tasks[i])
          /\ HasFixedStart(config.tasks[i])
          /\ Before(ConfiguredStart, ConfiguredEnd)
          /\ tasks_data[i].DurationDays < 0
    /\ \E i \in Resolved : tasks_data[i].DurationDays > 0

====
